---- MODULE Spec2Model ----
(***************************************************************************)
(* Model of the elevator status bot (main.py): the per-elevator JSON-lines *)
(* logs, the status queries over them, the transition guard, the uptime    *)
(* aggregation and the callback handlers that drive them.                  *)
(*                                                                         *)
(* A log file is a sequence of lines.  A line is a record                  *)
(*   [kind, ts, elevator, status, user]                                    *)
(* where kind says what json.loads and the field accesses do with it:      *)
(*   "record"    a JSON object with a parseable "ts" and a "status" string *)
(*               (log_status always writes this kind)                      *)
(*   "badts"     a JSON object with a "status" string whose "ts" is        *)
(*               missing or not ISO-8601                                   *)
(*   "nostatus"  a JSON object without a "status" key                      *)
(*   "nonobject" valid JSON that is not an object ([], 42, null)           *)
(*   "garbage"   not valid JSON                                            *)
(*   "blank"     whitespace only                                           *)
(* A missing file and an empty file read the same in every function of     *)
(* the program, and both are the empty sequence here.  Timestamps are      *)
(* whole seconds (isoformat(timespec="seconds")).                          *)
(***************************************************************************)
EXTENDS Integers, Sequences, FiniteSets, TLC

VARIABLES logs, before, written, now, cur, pending, last

vars == <<logs, before, written, now, cur, pending, last>>

(***************************************************************************)
(* Program constants                                                       *)
(***************************************************************************)
ELEVATORS == {"8240", "8241", "8242", "8243"}

STATUSES == {"ok", "warn", "bad"}

\* Python's None (returned by get_last_status, dict.get)
None == "None"

(***************************************************************************)
(* Bounds                                                                  *)
(***************************************************************************)
\* lines the handlers append, over all logs, in one run of the bot
MaxAppends == 2
\* longest history handed to needs_confirm on its own
MaxHist == 3
\* longest log drawn for the status queries, and the largest n asked for
MaxLines == 3
\* longest event history and latest timestamp drawn for compute_uptime
MaxEvents == 3
MaxTs == 2
\* the durations format_duration is given, in seconds: two hours and a minute
MaxSeconds == 7260
\* the seconds of each total render_report_block is given
MaxTotal == 4
\* the records of a log in the reports on their own
MaxFirst == 2

Users == {"u1", "u2"}

\* an elevator id outside ELEVATORS and a status key outside STATUSES
UnknownElevator == "9999"
UnknownStatus == "foo"

\* every log file a handler can touch
LogIds == ELEVATORS \cup {UnknownElevator}

Line(k, t, e, s, u) == [kind |-> k, ts |-> t, elevator |-> e, status |-> s, user |-> u]

(***************************************************************************)
(* needs_confirm                                                           *)
(***************************************************************************)
working == {"ok", "warn"}
broken == {"bad"}

\* without the length check: a missing status counts as bad
NeedsConfirmNoLengthCheck(last2, new_status) ==
    LET n == Len(last2)
        last_a == IF n >= 2 THEN last2[n - 1] ELSE "bad"
        last_b == IF n >= 1 THEN last2[n] ELSE "bad"
    IN  \/ last_a \in working /\ last_b \in working /\ new_status \in broken
        \/ last_a \in broken /\ last_b \in broken /\ new_status \in working

NeedsConfirm(last2, new_status) ==
    IF Len(last2) < 2 THEN FALSE
    ELSE LET last_a == last2[Len(last2) - 1]
             last_b == last2[Len(last2)]
         IN  IF last_a \in working /\ last_b \in working /\ new_status \in broken
                 THEN TRUE
             ELSE IF last_a \in broken /\ last_b \in broken /\ new_status \in working
                 THEN TRUE
             ELSE FALSE

(***************************************************************************)
(* What the readers see of one line                                        *)
(***************************************************************************)
\* line.strip() is empty
IsBlank(l) == l.kind = "blank"

\* json.loads(line) succeeds and yields a dict
LoadsObject(l) == l.kind \in {"record", "badts", "nostatus"}

\* obj.get("status") of a dict
StatusField(l) == IF l.kind = "nostatus" THEN None ELSE l.status

(***************************************************************************)
(* get_last_status: looks at the last line of the file only                *)
(***************************************************************************)
GetLastStatus(lines) ==
    IF Len(lines) = 0 THEN None
    ELSE LET last_line == lines[Len(lines)]
         IN  IF IsBlank(last_line) THEN None
             ELSE IF ~LoadsObject(last_line) THEN None   \* except Exception
             ELSE StatusField(last_line)

(***************************************************************************)
(* get_last_statuses: scans the lines from the end                         *)
(***************************************************************************)
Reverse(s) == [i \in 1..Len(s) |-> s[Len(s) + 1 - i]]

\* the loop `for line in reversed(lines)`, at line i with `statuses` collected
RECURSIVE ScanBack(_, _, _, _)
ScanBack(lines, i, statuses, n) ==
    IF i = 0 THEN statuses
    ELSE LET l == lines[i]
         IN  IF IsBlank(l) THEN ScanBack(lines, i - 1, statuses, n)
             ELSE IF ~LoadsObject(l) THEN ScanBack(lines, i - 1, statuses, n)
             ELSE IF StatusField(l) \in STATUSES
                 THEN LET st == Append(statuses, StatusField(l))
                      IN  IF Len(st) >= n THEN st
                          ELSE ScanBack(lines, i - 1, st, n)
             ELSE ScanBack(lines, i - 1, statuses, n)

GetLastStatuses(lines, n) == Reverse(ScanBack(lines, Len(lines), <<>>, n))

(***************************************************************************)
(* parse_events_for_elevator: the valid events, sorted by timestamp        *)
(***************************************************************************)
\* the line yields an event: json.loads, rec["ts"], rec["status"] all succeed
\* and the status is one of ok, warn, bad
IsEvent(l) == l.kind = "record" /\ l.status \in STATUSES

RECURSIVE ReadEvents(_)
ReadEvents(lines) ==
    IF lines = <<>> THEN <<>>
    ELSE LET l == Head(lines)
         IN  IF IsEvent(l) THEN <<<<l.ts, l.status>>>> \o ReadEvents(Tail(lines))
             ELSE ReadEvents(Tail(lines))

\* list.sort(key=ts) is stable: equal timestamps keep their file order
RECURSIVE InsertSorted(_, _)
InsertSorted(sorted, ev) ==
    IF sorted = <<>> THEN <<ev>>
    ELSE IF sorted[Len(sorted)][1] <= ev[1] THEN Append(sorted, ev)
    ELSE Append(InsertSorted(SubSeq(sorted, 1, Len(sorted) - 1), ev), sorted[Len(sorted)])

RECURSIVE SortByTs(_)
SortByTs(events) ==
    IF events = <<>> THEN <<>>
    ELSE InsertSorted(SortByTs(SubSeq(events, 1, Len(events) - 1)), events[Len(events)])

\* parse_events_for_elevator without events.sort: the events as the file has them
ParseEventsFileOrder(lines) == ReadEvents(lines)

ParseEvents(lines) == SortByTs(ReadEvents(lines))

(***************************************************************************)
(* compute_uptime                                                          *)
(***************************************************************************)
ZeroTotals == [ok |-> 0, warn |-> 0, bad |-> 0, unknown |-> 0]

AddTo(totals, st, secs) ==
    CASE st = "ok" -> [totals EXCEPT !.ok = @ + secs]
      [] st = "warn" -> [totals EXCEPT !.warn = @ + secs]
      [] st = "bad" -> [totals EXCEPT !.bad = @ + secs]
      [] OTHER -> [totals EXCEPT !.unknown = @ + secs]

\* first loop: the status of the last event before start
RECURSIVE StatusBefore(_, _, _, _)
StatusBefore(events, i, start, current_status) ==
    IF i > Len(events) THEN current_status
    ELSE IF events[i][1] < start THEN StatusBefore(events, i + 1, start, events[i][2])
    ELSE current_status

\* second loop, at event i; ends with the tail segment up to end
RECURSIVE Walk(_, _, _, _, _, _, _)
Walk(events, i, start, end, current_status, cursor, totals) ==
    LET tail == IF end > cursor THEN AddTo(totals, current_status, end - cursor)
                ELSE totals
    IN  IF i > Len(events) THEN tail
        ELSE LET ts == events[i][1]
                 st == events[i][2]
             IN  IF ts < start
                     THEN Walk(events, i + 1, start, end, current_status, cursor, totals)
                 ELSE IF ts >= end THEN tail
                 ELSE Walk(events, i + 1, start, end, st, ts,
                           IF ts > cursor THEN AddTo(totals, current_status, ts - cursor)
                           ELSE totals)

\* forgets the status carried into the window from before start
ComputeUptimeOfNoPrior(events, start, end) ==
    IF start >= end THEN ZeroTotals
    ELSE Walk(events, 1, start, end, "unknown", start, ZeroTotals)

ComputeUptimeOf(events, start, end) ==
    IF start >= end THEN ZeroTotals
    ELSE Walk(events, 1, start, end,
              StatusBefore(events, 1, start, "unknown"), start, ZeroTotals)

\* walks the events in file order, without the sort
ComputeUptimeUnsorted(lines, start, end) == ComputeUptimeOf(ReadEvents(lines), start, end)

ComputeUptime(lines, start, end) == ComputeUptimeOf(ParseEvents(lines), start, end)

(***************************************************************************)
(* format_duration: a string is the sequence of its characters, with "m"   *)
(* and "h" for the Cyrillic letters of minutes and hours                   *)
(***************************************************************************)
DigitChars == <<"0", "1", "2", "3", "4", "5", "6", "7", "8", "9">>

\* str(n) of a non-negative integer, as an f-string renders it
RECURSIVE Decimal(_)
Decimal(n) ==
    IF n < 10 THEN <<DigitChars[n + 1]>>
    ELSE Decimal(n \div 10) \o <<DigitChars[(n % 10) + 1]>>

\* format_duration rounding to the nearest minute
FormatDurationRounding(seconds) ==
    LET minutes == (seconds + 30) \div 60
        h == minutes \div 60
        m == minutes % 60
    IN  IF h = 0 THEN Decimal(m) \o <<"m">>
        ELSE Decimal(h) \o <<"h", " ">> \o Decimal(m) \o <<"m">>

FormatDuration(seconds) ==
    LET minutes == seconds \div 60
        h == minutes \div 60
        m == minutes % 60
    IN  IF h = 0 THEN Decimal(m) \o <<"m">>
        ELSE Decimal(h) \o <<"h", " ">> \o Decimal(m) \o <<"m">>

(***************************************************************************)
(* render_report_block: the block is its lines, the line of a status being *)
(* its key (for the label), its duration and its percentage                *)
(***************************************************************************)
\* round(num / den) of Python 3 for num >= 0, den > 0: to the nearest
\* integer, a half to the even one
Round(num, den) ==
    LET q == num \div den
        r == num % den
    IN  IF 2 * r < den THEN q
        ELSE IF 2 * r > den THEN q + 1
        ELSE IF q % 2 = 0 THEN q
        ELSE q + 1

\* pct of render_report_block
Pct(sec, denom) == IF denom # 0 THEN Round(sec * 100, denom) ELSE 0

RenderReportBlock(elevator_id, totals) ==
    LET known_total == totals.ok + totals.warn + totals.bad
        full_total == known_total + totals.unknown
        denom0 == IF totals.unknown > 0 THEN full_total ELSE known_total
        denom == IF denom0 = 0 THEN full_total ELSE denom0
        Row(k) == [label |-> k, duration |-> FormatDuration(totals[k]),
                   pct |-> Pct(totals[k], denom)]
    IN  IF full_total = 0
            THEN [elevator |-> elevator_id, nodata |-> TRUE, rows |-> <<>>]
        ELSE [elevator |-> elevator_id, nodata |-> FALSE,
              rows |-> <<Row("ok"), Row("warn"), Row("bad")>>
                       \o (IF totals.unknown > 0 THEN <<Row("unknown")>> ELSE <<>>)]

(***************************************************************************)
(* elevators_keyboard: for every elevator the icon of its last status, the *)
(* key standing for the icon of a status and "-" for the dash that         *)
(* STATUS_ICON.get puts for anything else                                  *)
(***************************************************************************)
ElevatorsKeyboard(lg) ==
    [e \in ELEVATORS |->
        LET last_status == GetLastStatus(lg[e])
        IN  IF last_status \in {"ok", "warn", "bad"} THEN last_status ELSE "-"]

(***************************************************************************)
(* State shared by every specification                                     *)
(***************************************************************************)
SeqsUpTo(S, n) == UNION {[1..k -> S] : k \in 0..n}

Idle == [h |-> "-", step |-> "idle", elevator |-> "-", status |-> "-"]
NoProposal == <<>>

EmptyLogs == [e \in LogIds |-> <<>>]

\* the state right after the module is loaded, but for the logs: no handler
\* runs, no prompt is on display, nothing is written yet
Quiet ==
    /\ now = 0
    /\ written = 0
    /\ cur = [u \in Users |-> Idle]
    /\ pending = [c \in {"chat"} |-> NoProposal]

(***************************************************************************)
(* needs_confirm on its own: every history up to MaxHist                   *)
(***************************************************************************)
InitGuard ==
    /\ Quiet
    /\ logs = EmptyLogs
    /\ before = logs
    /\ \E hist \in SeqsUpTo(STATUSES, MaxHist), new \in STATUSES :
           last = [op |-> "args", hist |-> hist, new |-> new, out |-> FALSE]

CallNeedsConfirm ==
    /\ last.op = "args"
    /\ last' = [last EXCEPT !.op = "needs_confirm",
                            !.out = NeedsConfirm(last.hist, last.new)]
    /\ UNCHANGED <<logs, before, written, now, cur, pending>>

NextGuard == CallNeedsConfirm

SpecGuard == InitGuard /\ [][NextGuard]_vars

(***************************************************************************)
(* The status queries on their own: every log of up to MaxLines lines      *)
(***************************************************************************)
QueryElevator == "8240"

QueryLines ==
    {Line("record", 0, QueryElevator, s, "u1") : s \in STATUSES \cup {UnknownStatus}}
    \cup {Line("badts", 0, QueryElevator, "warn", "u1")}
    \cup {Line(k, 0, "-", "-", "-") : k \in {"nostatus", "nonobject", "garbage", "blank"}}

InitQuery ==
    /\ Quiet
    /\ \E lines \in SeqsUpTo(QueryLines, MaxLines) :
           logs = [EmptyLogs EXCEPT ![QueryElevator] = lines]
    /\ before = logs
    /\ \E n \in 0..MaxLines : last = [op |-> "args", n |-> n, out |-> <<>>]

CallGetLastStatus ==
    /\ last.op = "args"
    /\ last' = [last EXCEPT !.op = "get_last_status",
                            !.out = GetLastStatus(logs[QueryElevator])]
    /\ UNCHANGED <<logs, before, written, now, cur, pending>>

CallGetLastStatuses ==
    /\ last.op = "args"
    /\ last' = [last EXCEPT !.op = "get_last_statuses",
                            !.out = GetLastStatuses(logs[QueryElevator], last.n)]
    /\ UNCHANGED <<logs, before, written, now, cur, pending>>

NextQuery == CallGetLastStatus \/ CallGetLastStatuses

SpecQuery == InitQuery /\ [][NextQuery]_vars

(***************************************************************************)
(* parse_events_for_elevator on its own: every log of up to MaxLines       *)
(* lines, records of any timestamp in 0..MaxTs in any file order among     *)
(* lines that do not parse                                                 *)
(***************************************************************************)
ParseLines ==
    {Line("record", t, QueryElevator, s, "u1") :
        t \in 0..MaxTs, s \in {"ok", "bad", UnknownStatus}}
    \cup {Line("badts", 0, QueryElevator, "warn", "u1")}
    \cup {Line(k, 0, "-", "-", "-") : k \in {"nostatus", "nonobject", "garbage", "blank"}}

InitParse ==
    /\ Quiet
    /\ \E lines \in SeqsUpTo(ParseLines, MaxLines) :
           logs = [EmptyLogs EXCEPT ![QueryElevator] = lines]
    /\ before = logs
    /\ last = [op |-> "args", out |-> <<>>]

CallParseEvents ==
    /\ last.op = "args"
    /\ last' = [last EXCEPT !.op = "parse_events", !.out = ParseEvents(logs[QueryElevator])]
    /\ UNCHANGED <<logs, before, written, now, cur, pending>>

NextParse == CallParseEvents

SpecParse == InitParse /\ [][NextParse]_vars

(***************************************************************************)
(* format_duration on its own: every duration up to MaxSeconds             *)
(***************************************************************************)
InitDuration ==
    /\ Quiet
    /\ logs = EmptyLogs
    /\ before = logs
    /\ \E seconds \in 0..MaxSeconds : last = [op |-> "args", seconds |-> seconds, out |-> <<>>]

CallFormatDuration ==
    /\ last.op = "args"
    /\ last' = [last EXCEPT !.op = "format_duration", !.out = FormatDuration(last.seconds)]
    /\ UNCHANGED <<logs, before, written, now, cur, pending>>

NextDuration == CallFormatDuration

SpecDuration == InitDuration /\ [][NextDuration]_vars

(***************************************************************************)
(* render_report_block on its own: every four totals up to MaxTotal        *)
(***************************************************************************)
InitRender ==
    /\ Quiet
    /\ logs = EmptyLogs
    /\ before = logs
    /\ \E totals \in [{"ok", "warn", "bad", "unknown"} -> 0..MaxTotal] :
           last = [op |-> "args", totals |-> totals, out |-> <<>>]

CallRenderReportBlock ==
    /\ last.op = "args"
    /\ last' = [last EXCEPT !.op = "render_report_block",
                            !.out = RenderReportBlock(QueryElevator, last.totals)]
    /\ UNCHANGED <<logs, before, written, now, cur, pending>>

NextRender == CallRenderReportBlock

SpecRender == InitRender /\ [][NextRender]_vars

(***************************************************************************)
(* compute_uptime on its own: every history of up to MaxEvents events with *)
(* timestamps in 0..MaxTs, in any file order (the local clock can be set   *)
(* back), and every window over 0..MaxTs+1                                 *)
(***************************************************************************)
UptimeLines == {Line("record", t, QueryElevator, s, "u1") : t \in 0..MaxTs, s \in STATUSES}

InitUptime ==
    /\ Quiet
    /\ \E lines \in SeqsUpTo(UptimeLines, MaxEvents) :
           logs = [EmptyLogs EXCEPT ![QueryElevator] = lines]
    /\ before = logs
    /\ \E start \in 0..(MaxTs + 1), end \in 0..(MaxTs + 1) :
           last = [op |-> "args", start |-> start, end |-> end, out |-> ZeroTotals]

CallComputeUptime ==
    /\ last.op = "args"
    /\ last' = [last EXCEPT !.op = "compute_uptime",
                            !.out = ComputeUptime(logs[QueryElevator], last.start, last.end)]
    /\ UNCHANGED <<logs, before, written, now, cur, pending>>

NextUptime == CallComputeUptime

SpecUptime == InitUptime /\ [][NextUptime]_vars

(***************************************************************************)
(* The bot: the handlers of the callback queries of several reporters who  *)
(* share one chat, run as tasks of one event loop.  A handler runs without *)
(* interruption up to its next await; each action below is one such        *)
(* stretch.  cur[u] is the handler of reporter u that is suspended at an   *)
(* await and pending[c] is the confirmation prompt on display in chat c.   *)
(* Whether LAST_MENU_MSG_ID holds a menu message for the chat decides      *)
(* nothing but the early return of refresh_elevators_menu, and it is an    *)
(* input of that step.  last records the operation of the latest step,     *)
(* its inputs (the reporter where the handler reads callback.from_user)    *)
(* and its outcome, before the logs as that step found them, and written   *)
(* counts the lines appended since the bot started.                        *)
(***************************************************************************)
Chat == "chat"
Chats == {Chat}

\* the elevator the reporters work on
BotElevator == "8240"

Op(op, u, e, s, out) ==
    [op |-> op, user |-> u, elevator |-> e, status |-> s, msg |-> TRUE, io |-> TRUE,
     out |-> out, data |-> <<>>]

\* a callback with its message (callback.message is not None) and the fate
\* of the append, should the handler come to it
Call(op, u, e, s, hasMsg, io, out) ==
    [Op(op, u, e, s, out) EXCEPT !.msg = hasMsg, !.io = io]

Suspended(h, step, e, s) == [h |-> h, step |-> step, elevator |-> e, status |-> s]

\* write(line) in place of write(line + "\n"): the record runs into the line
\* before it, and the two make one line that is no JSON document
LogStatusNoNewline(lg, elevator_id, status_key, user, ts) ==
    [lg EXCEPT ![elevator_id] =
        IF @ = <<>> THEN <<Line("record", ts, elevator_id, status_key, user)>>
        ELSE SubSeq(@, 1, Len(@) - 1)
                 \o <<Line("garbage", ts, elevator_id, status_key, user)>>]

\* open("w") in place of open("a"): the file is truncated before the write
LogStatusTruncating(lg, elevator_id, status_key, user, ts) ==
    [lg EXCEPT ![elevator_id] = <<Line("record", ts, elevator_id, status_key, user)>>]

\* log_status, when open and write succeed: one line, written and flushed by
\* the close before the function returns
LogStatus(lg, elevator_id, status_key, user, ts) ==
    [lg EXCEPT ![elevator_id] = Append(@, Line("record", ts, elevator_id, status_key, user))]

\* logs/ outlives the process (LOG_DIR.mkdir(exist_ok=True)): the bot starts
\* on the log an earlier run has left, here none, two reports that the
\* elevator works or two that it does not
PriorLogs ==
    {<<>>} \cup {<<Line("record", 0, BotElevator, s, "u1"),
                    Line("record", 0, BotElevator, s, "u1")>> : s \in {"ok", "bad"}}

Init ==
    /\ Quiet
    /\ \E prior \in PriorLogs : logs = [EmptyLogs EXCEPT ![BotElevator] = prior]
    /\ before = logs
    /\ last = Op("init", "-", "-", "-", "-")

\* /start: show_elevators_menu (delete the old menu, send the new one)
Start(u, sent) ==
    /\ cur[u] = Idle
    /\ last' = [Op("start", "-", "-", "-", IF sent THEN "Shown" ELSE "SendFailed")
                EXCEPT !.data = ElevatorsKeyboard(logs)]
    /\ before' = logs
    /\ UNCHANGED <<logs, written, now, cur, pending>>

\* choose_elevator that takes the press of a button of the prompt for a yes
ChooseElevatorRecording(u, e, hasMsg) ==
    /\ cur[u] = Idle
    /\ last' = Op("choose_elevator", "-", e, "-",
                  IF e \notin ELEVATORS THEN "Rejected"
                  ELSE IF ~hasMsg THEN "NoMessage"
                  ELSE "StatusChoice")
    /\ before' = logs
    /\ IF pending[Chat] # NoProposal /\ written < MaxAppends
           THEN /\ logs' = LogStatus(logs, pending[Chat][1], pending[Chat][2], u, now)
                /\ written' = written + 1
       ELSE UNCHANGED <<logs, written>>
    /\ UNCHANGED <<now, cur, pending>>

\* callback "e:<id>": a pick in the menu, or the "Нет" button of a prompt
ChooseElevator(u, e, hasMsg) ==
    /\ cur[u] = Idle
    /\ last' = Op("choose_elevator", "-", e, "-",
                  IF e \notin ELEVATORS THEN "Rejected"
                  ELSE IF ~hasMsg THEN "NoMessage"
                  ELSE "StatusChoice")
    /\ before' = logs
    /\ UNCHANGED <<logs, written, now, cur, pending>>

\* choose_status with the guard asked about the last status alone
ChooseStatusOutcomeLastOnly(lg, e, s, hasMsg, io) ==
    IF e \notin ELEVATORS THEN "Rejected"
    ELSE IF s \notin STATUSES THEN "Rejected"
    ELSE IF ~hasMsg THEN "NoMessage"
    ELSE IF NeedsConfirm(GetLastStatuses(lg[e], 1) \o GetLastStatuses(lg[e], 1), s)
        THEN "NeedsConfirmation"
    ELSE IF ~io THEN "WriteFailed"
    ELSE "Recorded"

\* choose_status with an await between get_last_statuses and log_status:
\* the guard has not seen the line appended meanwhile
ChooseStatusOutcomeStaleRead(lg, e, s, hasMsg, io) ==
    IF e \notin ELEVATORS THEN "Rejected"
    ELSE IF s \notin STATUSES THEN "Rejected"
    ELSE IF ~hasMsg THEN "NoMessage"
    ELSE IF NeedsConfirm(GetLastStatuses(SubSeq(lg[e], 1, Len(lg[e]) - 1), 2), s)
        THEN "NeedsConfirmation"
    ELSE IF ~io THEN "WriteFailed"
    ELSE "Recorded"

\* the branch choose_status takes on callback data of three parts
ChooseStatusOutcome(lg, e, s, hasMsg, io) ==
    IF e \notin ELEVATORS THEN "Rejected"
    ELSE IF s \notin STATUSES THEN "Rejected"
    ELSE IF ~hasMsg THEN "NoMessage"
    ELSE IF NeedsConfirm(GetLastStatuses(lg[e], 2), s) THEN "NeedsConfirmation"
    ELSE IF ~io THEN "WriteFailed"
    ELSE "Recorded"

\* callback "s:<id>:<key>", up to the first await
ChooseStatus(u, e, s, hasMsg, io) ==
    /\ cur[u] = Idle
    /\ \E out \in {ChooseStatusOutcome(logs, e, s, hasMsg, io)} :
           /\ out = "Recorded" => written < MaxAppends
           /\ logs' = IF out = "Recorded" THEN LogStatus(logs, e, s, u, now) ELSE logs
           /\ written' = IF out = "Recorded" THEN written + 1 ELSE written
           /\ cur' = CASE out = "Recorded" ->
                            [cur EXCEPT ![u] = Suspended("s", "refresh", e, s)]
                       [] out = "NeedsConfirmation" ->
                            [cur EXCEPT ![u] = Suspended("s", "prompt", e, s)]
                       [] OTHER -> cur
           /\ last' = Call("choose_status", u, e, s, hasMsg, io, out)
    /\ before' = logs
    /\ UNCHANGED <<now, pending>>

\* callback data "s:..." that does not split into three parts
ChooseStatusMalformed(u) ==
    /\ cur[u] = Idle
    /\ last' = Op("choose_status", "-", "-", "-", "Malformed")
    /\ before' = logs
    /\ UNCHANGED <<logs, written, now, cur, pending>>

\* await msg.edit_text(...confirm_keyboard...): the prompt replaces the
\* status buttons; a failure ends the handler with the exception
Prompt(u, ok) ==
    /\ cur[u].step = "prompt"
    /\ pending' = IF ok THEN [pending EXCEPT ![Chat] = <<cur[u].elevator, cur[u].status>>]
                  ELSE pending
    /\ cur' = [cur EXCEPT ![u] = Idle]
    /\ last' = Op("prompt", u, cur[u].elevator, cur[u].status,
                  IF ok THEN "Shown" ELSE "EditFailed")
    /\ before' = logs
    /\ UNCHANGED <<logs, written, now>>

\* confirm_status with log_status in a try/except that passes
ConfirmStatusOutcomeSwallowing(e, s, hasMsg, io) ==
    IF ~hasMsg THEN "NoMessage" ELSE "Recorded"

\* the branch confirm_status takes on callback data of three parts
ConfirmStatusOutcome(e, s, hasMsg, io) ==
    IF ~hasMsg THEN "NoMessage"
    ELSE IF ~io THEN "WriteFailed"
    ELSE "Recorded"

\* confirm_status that asks the guard again, as choose_status does
ConfirmStatusGuarded(u, e, s, hasMsg, io) ==
    /\ cur[u] = Idle
    /\ \E out \in {ChooseStatusOutcome(logs, e, s, hasMsg, io)} :
           /\ out = "Recorded" => written < MaxAppends
           /\ logs' = IF out = "Recorded" THEN LogStatus(logs, e, s, u, now) ELSE logs
           /\ written' = IF out = "Recorded" THEN written + 1 ELSE written
           /\ cur' = IF out = "Recorded"
                         THEN [cur EXCEPT ![u] = Suspended("c", "refresh", e, s)]
                     ELSE cur
           /\ last' = Call("confirm_status", u, e, s, hasMsg, io, out)
    /\ before' = logs
    /\ UNCHANGED <<now, pending>>

\* callback "c:<id>:<key>", up to the first await
ConfirmStatus(u, e, s, hasMsg, io) ==
    /\ cur[u] = Idle
    /\ \E out \in {ConfirmStatusOutcome(e, s, hasMsg, io)} :
           /\ out = "Recorded" => written < MaxAppends
           /\ logs' = IF out = "Recorded" THEN LogStatus(logs, e, s, u, now) ELSE logs
           /\ written' = IF out = "Recorded" THEN written + 1 ELSE written
           /\ cur' = IF out = "Recorded"
                         THEN [cur EXCEPT ![u] = Suspended("c", "refresh", e, s)]
                     ELSE cur
           /\ last' = Call("confirm_status", u, e, s, hasMsg, io, out)
    /\ before' = logs
    /\ UNCHANGED <<now, pending>>

\* callback data "c:..." that does not split into three parts
ConfirmStatusMalformed(u) ==
    /\ cur[u] = Idle
    /\ last' = Op("confirm_status", "-", "-", "-", "Malformed")
    /\ before' = logs
    /\ UNCHANGED <<logs, written, now, cur, pending>>

\* refresh_elevators_menu without its try/except: a failed edit of the menu
\* ends the handler
RefreshRaising(u, hasMenu, ok) ==
    /\ cur[u].step = "refresh"
    /\ cur' = IF hasMenu /\ ~ok THEN [cur EXCEPT ![u] = Idle]
              ELSE [cur EXCEPT ![u].step = "delete"]
    /\ last' = Op("refresh", u, cur[u].elevator, cur[u].status,
                  IF ~hasMenu THEN "NoMenu" ELSE IF ok THEN "Edited" ELSE "Raised")
    /\ before' = logs
    /\ UNCHANGED <<logs, written, now, pending>>

\* await refresh_elevators_menu(chat): nothing without a menu; the edit of
\* the menu may fail, and the failure is swallowed
Refresh(u, hasMenu, ok) ==
    /\ cur[u].step = "refresh"
    /\ cur' = [cur EXCEPT ![u].step = "delete"]
    /\ last' = [Op("refresh", u, cur[u].elevator, cur[u].status,
                   IF ~hasMenu THEN "NoMenu" ELSE IF ok THEN "Edited" ELSE "Swallowed")
                EXCEPT !.data = IF hasMenu THEN ElevatorsKeyboard(logs) ELSE <<>>]
    /\ before' = logs
    /\ UNCHANGED <<logs, written, now, pending>>

\* await msg.delete() (a failure is swallowed), then callback.answer(): the
\* handler is done.  After a confirmation the deleted message is the prompt.
Delete(u, ok) ==
    /\ cur[u].step = "delete"
    /\ pending' = IF ok /\ cur[u].h = "c"
                       /\ pending[Chat] = <<cur[u].elevator, cur[u].status>>
                      THEN [pending EXCEPT ![Chat] = NoProposal]
                  ELSE pending
    /\ cur' = [cur EXCEPT ![u] = Idle]
    /\ last' = Op("delete", u, cur[u].elevator, cur[u].status,
                  IF ok THEN "Deleted" ELSE "Swallowed")
    /\ before' = logs
    /\ UNCHANGED <<logs, written, now>>

\* /report: the period buttons
ReportCmd(u) ==
    /\ cur[u] = Idle
    /\ last' = Op("report_cmd", "-", "-", "-", "Periods")
    /\ before' = logs
    /\ UNCHANGED <<logs, written, now, cur, pending>>

Seconds24h == 86400
Seconds7d == 604800
Seconds30d == 2592000

Periods == {"24h", "7d", "30d", "all"}

\* the first-event timestamps of the elevators that have events
Firsts(lg) == {ParseEvents(lg[e])[1][1] : e \in {x \in ELEVATORS : ParseEvents(lg[x]) # <<>>}}

Min(S) == CHOOSE x \in S : \A y \in S : x <= y

\* report_pick taking max(firsts) for the start of the all-time window
WindowStartLatest(lg, period, end) ==
    CASE period = "24h" -> end - Seconds24h
      [] period = "7d" -> end - Seconds7d
      [] period = "30d" -> end - Seconds30d
      [] OTHER -> IF Firsts(lg) # {} THEN CHOOSE x \in Firsts(lg) : \A y \in Firsts(lg) : x >= y
                  ELSE end

WindowStart(lg, period, end) ==
    CASE period = "24h" -> end - Seconds24h
      [] period = "7d" -> end - Seconds7d
      [] period = "30d" -> end - Seconds30d
      [] OTHER -> IF Firsts(lg) # {} THEN Min(Firsts(lg)) ELSE end

\* the blocks of the report of a window: for every elevator its totals and
\* the block rendered from them
Blocks(lg, period, start, end) ==
    LET totals == [e \in ELEVATORS |-> ComputeUptime(lg[e], start, end)]
    IN  [period |-> period, start |-> start, end |-> end, totals |-> totals,
         blocks |-> [e \in ELEVATORS |-> RenderReportBlock(e, totals[e])]]

\* callback "r:<period>"
ReportPick(u, period, hasMsg) ==
    /\ cur[u] = Idle
    /\ IF period \notin Periods
           THEN last' = Op("report_pick", "-", "-", "-", "Rejected")
       ELSE \E start \in {WindowStart(logs, period, now)} :
               last' = [Op("report_pick", "-", "-", "-",
                           IF hasMsg THEN "Reported" ELSE "NoMessage")
                        EXCEPT !.data = Blocks(logs, period, start, now)]
    /\ before' = logs
    /\ UNCHANGED <<logs, written, now, cur, pending>>

(***************************************************************************)
(* The reports on their own: two elevators with up to MaxFirst records     *)
(* each, of any timestamp in 0..MaxTs in any file order, two without a     *)
(* log, and a report asked for at any time in 0..MaxTs+1.  The time is the *)
(* naive local time of datetime.now(), which steps back when the clock is  *)
(* set back, so a record can be later than the time of the report.         *)
(***************************************************************************)
ReportElevators == {"8240", "8241"}

ReportPeriods == {"all", "24h"}

InitReport ==
    /\ written = 0
    /\ cur = [u \in Users |-> Idle]
    /\ pending = [c \in Chats |-> NoProposal]
    /\ now \in 0..(MaxTs + 1)
    /\ \E a \in SeqsUpTo(0..MaxTs, MaxFirst), b \in SeqsUpTo(0..MaxTs, MaxFirst) :
           logs = [EmptyLogs EXCEPT
                      !["8240"] = [i \in 1..Len(a) |-> Line("record", a[i], "8240", "ok", "u1")],
                      !["8241"] = [i \in 1..Len(b) |-> Line("record", b[i], "8241", "bad", "u1")]]
    /\ before = logs
    /\ last = Op("init", "-", "-", "-", "-")

NextReport == \E period \in ReportPeriods : ReportPick("u1", period, TRUE)

SpecReport == InitReport /\ [][NextReport]_vars

(***************************************************************************)
(* Spec: two reporters working on one elevator.  The callback data are     *)
(* the buttons of the keyboards and forged ones, with an elevator id or a  *)
(* status key the bot does not know.  The clock stands still: the          *)
(* timestamps matter to the aggregation only.                              *)
(***************************************************************************)
BotStatuses == {"ok", "bad"}

\* what a button of a keyboard of the bot carries
ButtonData == {<<BotElevator, s>> : s \in BotStatuses}

ForgedData == {<<UnknownElevator, UnknownStatus>>}

BotPeriods == {"all", "1y"}

Next ==
    \E u \in Users :
        \/ \E sent \in BOOLEAN : Start(u, sent)
        \/ \E e \in {BotElevator, UnknownElevator}, hasMsg \in BOOLEAN :
               ChooseElevator(u, e, hasMsg)
        \/ \E d \in ButtonData \cup ForgedData, hasMsg \in BOOLEAN :
               \E io \in IF hasMsg THEN BOOLEAN ELSE {TRUE} :
                   ChooseStatus(u, d[1], d[2], hasMsg, io)
        \/ ChooseStatusMalformed(u)
        \/ \E ok \in BOOLEAN : Prompt(u, ok)
        \/ \E d \in ButtonData \cup ForgedData, hasMsg \in BOOLEAN :
               \E io \in IF hasMsg THEN BOOLEAN ELSE {TRUE} :
                   ConfirmStatus(u, d[1], d[2], hasMsg, io)
        \/ ConfirmStatusMalformed(u)
        \/ \E hasMenu \in BOOLEAN :
               \E ok \in IF hasMenu THEN BOOLEAN ELSE {TRUE} : Refresh(u, hasMenu, ok)
        \/ \E ok \in BOOLEAN : Delete(u, ok)
        \/ ReportCmd(u)
        \/ \E period \in BotPeriods, hasMsg \in BOOLEAN : ReportPick(u, period, hasMsg)

Spec == Init /\ [][Next]_vars

(***************************************************************************)
(* SpecMenu: one reporter, the menu and the prompt, with the callback data *)
(* of the buttons and a confirmation forged for the elevator with a status *)
(* key the bot does not know                                               *)
(***************************************************************************)
MenuData == ButtonData \cup {<<BotElevator, UnknownStatus>>}

NextMenu ==
    \/ \E sent \in BOOLEAN : Start("u1", sent)
    \/ \E d \in MenuData : ChooseStatus("u1", d[1], d[2], TRUE, TRUE)
    \/ \E ok \in BOOLEAN : Prompt("u1", ok)
    \/ \E d \in MenuData : ConfirmStatus("u1", d[1], d[2], TRUE, TRUE)
    \/ \E hasMenu \in BOOLEAN : Refresh("u1", hasMenu, TRUE)
    \/ \E ok \in BOOLEAN : Delete("u1", ok)

SpecMenu == Init /\ [][NextMenu]_vars

(***************************************************************************)
(* Claims                                                                  *)
(***************************************************************************)
\* The two-rule definition of the transition guard over a whole history.
TwoRule(hist, new) ==
    /\ Len(hist) >= 2
    /\ \/ /\ hist[Len(hist) - 1] \in {"ok", "warn"}
          /\ hist[Len(hist)] \in {"ok", "warn"}
          /\ new = "bad"
       \/ /\ hist[Len(hist) - 1] = "bad"
          /\ hist[Len(hist)] = "bad"
          /\ new \in {"ok", "warn"}

\* C1: for every history of valid statuses and every proposed status,
\* needs_confirm returns true exactly when the history has at least two
\* statuses and the last two are both working and the new one is bad, or the
\* last two are both bad and the new one is working; so it is false for every
\* history of length 0 or 1.
C1_NeedsConfirmIsTwoRule ==
    last.op = "needs_confirm" =>
        /\ last.out = TwoRule(last.hist, last.new)
        /\ Len(last.hist) < 2 => last.out = FALSE

C1_Witness ==
    /\ last.op = "needs_confirm"
    /\ last.hist = <<"bad", "ok", "warn">>
    /\ last.new = "bad"
    /\ last.out = TRUE

\* the statuses of the valid records of a log, in file order
RECURSIVE ValidStatuses(_)
ValidStatuses(lines) ==
    IF lines = <<>> THEN <<>>
    ELSE LET l == Head(lines)
         IN  IF l.kind \in {"record", "badts"} /\ l.status \in {"ok", "warn", "bad"}
                 THEN <<l.status>> \o ValidStatuses(Tail(lines))
             ELSE ValidStatuses(Tail(lines))

\* C7: last_status is the status of the most recently appended valid record,
\* and none exactly when the log holds no valid record.
C7_LastStatusIsLastValid ==
    last.op = "get_last_status" =>
        LET v == ValidStatuses(logs[QueryElevator])
        IN  last.out = IF v = <<>> THEN None ELSE v[Len(v)]

\* C8: last_n_statuses(n) is the last min(n, k) of the k valid statuses of the
\* log, oldest first, so it never has more than n elements.
C8_LastNIsSuffix ==
    last.op = "get_last_statuses" =>
        LET v == ValidStatuses(logs[QueryElevator])
            m == IF last.n < Len(v) THEN last.n ELSE Len(v)
        IN  /\ last.out = SubSeq(v, Len(v) - m + 1, Len(v))
            /\ Len(last.out) <= last.n

InForce(lines, t) ==
    LET upto == {i \in 1..Len(lines) : lines[i].ts <= t}
        Later(i, j) == \/ lines[i].ts > lines[j].ts
                       \/ lines[i].ts = lines[j].ts /\ i >= j
    IN  IF upto = {} THEN "unknown"
        ELSE lines[CHOOSE i \in upto : \A j \in upto : Later(i, j)].status

SecondsIn(lines, start, end, s) ==
    Cardinality({t \in start..(end - 1) : InForce(lines, t) = s})

AppendedOne ==
    logs = [before EXCEPT ![last.elevator] =
               Append(@, Line("record", now, last.elevator, last.status, last.user))]

\* the guard, asked about the valid statuses of the log the call found
GuardAsks == TwoRule(ValidStatuses(before[last.elevator]), last.status)

KnownIds == last.elevator \in {"8240", "8241", "8242", "8243"}
                /\ last.status \in {"ok", "warn", "bad"}

\* C2, as stated: a status report for a known elevator and a known status
\* appends exactly one record with the proposed status and ends in Recorded
\* when the guard is false, and appends nothing and ends in NeedsConfirmation
\* when the guard is true.
C2_ReportRecordsOrAsks ==
    (last.op = "choose_status" /\ KnownIds) =>
        IF GuardAsks THEN logs = before /\ last.out = "NeedsConfirmation"
        ELSE AppendedOne /\ last.out = "Recorded"

\* C2, amended: a status report for a known elevator and a known status whose
\* callback carries its message appends nothing and ends in NeedsConfirmation
\* when the guard is true, and when the guard is false it appends exactly one
\* record with the proposed status and ends in Recorded unless the append
\* fails; a report whose callback carries no message, or whose append fails,
\* appends nothing and does not end in Recorded.
C2_ReportRecordsOrAsksWhenItCan ==
    (last.op = "choose_status" /\ KnownIds) =>
        IF ~last.msg THEN logs = before /\ last.out = "NoMessage"
        ELSE IF GuardAsks THEN logs = before /\ last.out = "NeedsConfirmation"
        ELSE IF ~last.io THEN logs = before /\ last.out = "WriteFailed"
        ELSE AppendedOne /\ last.out = "Recorded"

\* the guard asks after two reports of this run, and nothing is appended
C2_Witness ==
    /\ last.op = "choose_status"
    /\ last.out = "NeedsConfirmation"
    /\ last.elevator = BotElevator /\ last.status = "bad"
    /\ written = 2
    /\ Len(logs[BotElevator]) = 2
    /\ logs = before

\* the proposal of the call that last ran is the one of the prompt on display
PendingProposal == pending[Chat] = <<last.elevator, last.status>>

\* C3, as stated: a confirmation of a pending proposal appends exactly one
\* record with the elevator id and the status of the proposal, whatever the
\* guard would say now and whatever was appended since the prompt.
C3_ConfirmAppendsProposal ==
    (last.op = "confirm_status" /\ PendingProposal) =>
        AppendedOne /\ last.out = "Recorded"

\* C3, amended: a confirmation of a pending proposal whose callback carries
\* its message and whose append does not fail appends exactly one record with
\* the elevator id and the status of the proposal, whatever the guard would
\* say now and whatever was appended since the prompt; a confirmation whose
\* callback carries no message, or whose append fails, appends nothing.
C3_ConfirmAppendsProposalWhenItCan ==
    (last.op = "confirm_status" /\ PendingProposal) =>
        IF last.msg /\ last.io THEN AppendedOne /\ last.out = "Recorded"
        ELSE logs = before /\ last.out # "Recorded"

\* a reporter confirms the proposal after another one has confirmed it: the
\* guard would not ask any more, and the record is appended all the same
C3_Witness ==
    /\ last.op = "confirm_status"
    /\ last.out = "Recorded"
    /\ PendingProposal
    /\ last.elevator = BotElevator
    /\ Len(before[BotElevator]) = 3
    /\ before[BotElevator][3].user # last.user
    /\ ~GuardAsks
    /\ TwoRule(ValidStatuses(SubSeq(before[BotElevator], 1, 2)), last.status)
    /\ AppendedOne

\* C4: a report or a confirmation whose elevator id or status key is unknown
\* is rejected and leaves every log unchanged, so that no log ever holds a
\* record with an unknown elevator id or a status outside ok, warn, bad.
C4_UnknownIdsRejected ==
    /\ (last.op \in {"choose_status", "confirm_status"}
            /\ last.out # "Malformed" /\ ~KnownIds) =>
           logs = before /\ last.out = "Rejected"
    /\ \A id \in DOMAIN logs : \A i \in 1..Len(logs[id]) :
           /\ logs[id][i].elevator \in {"8240", "8241", "8242", "8243"}
           /\ logs[id][i].status \in {"ok", "warn", "bad"}

IsPrefix(s, t) == Len(s) <= Len(t) /\ SubSeq(t, 1, Len(s)) = s

\* the steps that only read the logs: cancel and the pick of an elevator,
\* the rendering of the menu and of the prompt, the reports
ReadOnlyOps ==
    {"start", "choose_elevator", "prompt", "refresh", "delete", "report_cmd", "report_pick"}

\* C9: every log before a step is a prefix of the log after it, whatever the
\* step, and the steps that only read leave every log as it was.
C9_AppendOnly ==
    /\ \A id \in DOMAIN logs : IsPrefix(before[id], logs[id])
    /\ last.op \in ReadOnlyOps => logs = before

\* a record is appended to a log that holds records, which stay as they were
C9_Witness ==
    /\ last.out = "Recorded"
    /\ Len(before[BotElevator]) >= 2
    /\ Len(logs[BotElevator]) = Len(before[BotElevator]) + 1
    /\ SubSeq(logs[BotElevator], 1, Len(before[BotElevator])) = before[BotElevator]

RECURSIVE Lines(_, _)
Lines(lg, ids) ==
    IF ids = {} THEN 0
    ELSE LET id == CHOOSE x \in ids : TRUE
         IN  Len(lg[id]) + Lines(lg, ids \ {id})

\* C10: with the handlers of several reporters interleaved, every append
\* that completes adds one complete record, the one it was called with, at
\* the end of its log and loses none, so that the lines grow by one with
\* every append; and every line a reader finds is one complete record.
C10_AppendsAreAtomic ==
    /\ \A id \in DOMAIN logs : \A i \in 1..Len(logs[id]) :
           logs[id][i].kind = "record" /\ logs[id][i].elevator = id
    /\ last.out = "Recorded" =>
           /\ AppendedOne
           /\ logs[last.elevator][Len(logs[last.elevator])].user = last.user
    /\ Lines(logs, DOMAIN logs) - Lines(before, DOMAIN logs)
           = IF last.out = "Recorded" THEN 1 ELSE 0
    /\ Lines(logs, DOMAIN logs) >= written

\* a reporter's append completes while the handler of the other one, which
\* has appended to the same log, is suspended at an await: both records are
\* in the log
C10_Witness ==
    /\ last.out = "Recorded"
    /\ last.elevator = BotElevator
    /\ \E u \in Users :
           /\ u # last.user
           /\ cur[u].step = "refresh"
           /\ cur[u].elevator = BotElevator
           /\ Len(logs[BotElevator]) >= 2
           /\ logs[BotElevator][Len(logs[BotElevator]) - 1].user = u
           /\ logs[BotElevator][Len(logs[BotElevator])].user = last.user

\* the valid lines of a log, in file order: a JSON object with a timestamp
\* that parses and a status among ok, warn, bad
ValidLines(lines) ==
    SelectSeq(lines, LAMBDA l : l.kind = "record" /\ l.status \in {"ok", "warn", "bad"})

\* C11, as stated: read_all returns one event per valid line, with that
\* line's timestamp and status, in file order, skipping the other lines; it
\* is empty for a missing log.
C11_ReadAllInFileOrder ==
    last.op = "parse_events" =>
        LET v == ValidLines(logs[QueryElevator])
        IN  last.out = [i \in 1..Len(v) |-> <<v[i].ts, v[i].status>>]

\* C11, amended: read_all returns one event per valid line, with that line's
\* timestamp and status, skipping the other lines, in the order of the
\* timestamps, the events of one timestamp in file order; this is the file
\* order when the timestamps of the file never decrease.  It is empty for a
\* missing log.
C11_ReadAllInTimeOrder ==
    last.op = "parse_events" =>
        LET v == ValidLines(logs[QueryElevator])
            Rank(i) == 1 + Cardinality({j \in 1..Len(v) :
                               \/ v[j].ts < v[i].ts
                               \/ v[j].ts = v[i].ts /\ j < i})
        IN  /\ Len(last.out) = Len(v)
            /\ \A i \in 1..Len(v) : last.out[Rank(i)] = <<v[i].ts, v[i].status>>
            /\ (\A i \in 1..Len(v) : \A j \in 1..Len(v) : i < j => v[i].ts <= v[j].ts)
                   => last.out = [i \in 1..Len(v) |-> <<v[i].ts, v[i].status>>]
            /\ logs[QueryElevator] = <<>> => last.out = <<>>

\* a later record of an earlier time, behind a line that does not parse
C11_Witness ==
    /\ last.op = "parse_events"
    /\ LET lines == logs[QueryElevator]
       IN  /\ Len(lines) = 3
           /\ lines[1].kind = "record" /\ lines[1].ts = 2 /\ lines[1].status = "ok"
           /\ lines[2].kind = "garbage"
           /\ lines[3].kind = "record" /\ lines[3].ts = 0 /\ lines[3].status = "bad"
    /\ last.out = <<<<0, "bad">>, <<2, "ok">>>>

\* the call that last ran came to log_status
CameToAppend ==
    /\ last.op \in {"choose_status", "confirm_status"}
    /\ last.out # "Malformed"
    /\ last.msg
    /\ last.op = "choose_status" => KnownIds /\ ~GuardAsks

\* C12: a report or a confirmation whose append fails does not end in
\* Recorded and goes no further (no refresh of the menu, no deletion of the
\* message or the prompt), and the log is left without the new record.
C12_WriteFailureSurfaces ==
    /\ (CameToAppend /\ ~last.io) =>
           /\ last.out = "WriteFailed"
           /\ logs = before
           /\ cur[last.user] = Idle
    /\ last.out = "WriteFailed" => CameToAppend /\ ~last.io

\* the append of a confirmation of the prompt on display fails
C12_Witness ==
    /\ last.op = "confirm_status"
    /\ last.out = "WriteFailed"
    /\ PendingProposal
    /\ logs = before
    /\ cur[last.user] = Idle

\* C15: the cancel button of a prompt (callback "e:<id>", choose_elevator)
\* appends nothing and leaves every log as it was: of the two buttons
\* of a prompt only the confirmation changes a log.
C15_CancelAppendsNothing ==
    /\ last.op = "choose_elevator" => logs = before
    /\ (pending[Chat] # NoProposal /\ logs # before
            /\ last.op \in {"choose_elevator", "confirm_status"}) =>
           last.op = "confirm_status" /\ last.out = "Recorded"

\* the prompt for a report that the elevator is broken is cancelled
C15_Witness ==
    /\ last.op = "choose_elevator"
    /\ last.out = "StatusChoice"
    /\ pending[Chat] = <<last.elevator, "bad">>
    /\ Len(logs[last.elevator]) >= 2
    /\ logs = before

\* the record (e, s) of reporter u is in the log of e
InLog(e, s, u) ==
    \E i \in 1..Len(logs[e]) : logs[e][i] = Line("record", now, e, s, u)

\* C18: in the report and in the confirmation the record is in the log
\* before the refresh of the menu and the deletion of the message are tried;
\* either may fail: the record stays, the handler goes on to the deletion
\* after the refresh and is done after the deletion.
C18_CleanupAfterAppend ==
    /\ \A u \in Users :
           cur[u].step \in {"refresh", "delete"} =>
               InLog(cur[u].elevator, cur[u].status, u)
    /\ last.op = "refresh" =>
           /\ logs = before
           /\ cur[last.user].step = "delete"
    /\ last.op = "delete" =>
           /\ logs = before
           /\ cur[last.user] = Idle
           /\ InLog(last.elevator, last.status, last.user)

\* the deletion after a confirmation fails: the record is there, the handler
\* is done and the prompt is still on display
C18_Witness ==
    /\ last.op = "delete"
    /\ last.out = "Swallowed"
    /\ cur[last.user] = Idle
    /\ PendingProposal
    /\ InLog(last.elevator, last.status, last.user)

\* C19: the guard and the append of the report are one step, whatever the
\* handlers of the other reporters do in between: a record that switches
\* group against the two valid records before it, both of one group, is
\* appended by a confirmation and never by the report.  (The logs are
\* append-only, so the records before it stay the ones it was appended to.)
C19_SwitchOnlyByConfirmation ==
    /\ (last.out = "Recorded" /\ GuardAsks) => last.op = "confirm_status"
    /\ (last.op = "choose_status" /\ last.out = "Recorded") =>
           /\ AppendedOne
           /\ ~TwoRule(ValidStatuses(before[last.elevator]), last.status)

\* a report is recorded behind the record of another reporter, whose
\* handler is suspended at an await
C19_Witness ==
    /\ last.op = "choose_status"
    /\ last.out = "Recorded"
    /\ last.elevator = BotElevator
    /\ Len(before[BotElevator]) = 3
    /\ \E u \in Users :
           /\ u # last.user
           /\ cur[u].step \in {"refresh", "delete"}
           /\ before[BotElevator][3].user = u
    /\ ~GuardAsks

\* seconds * 100 / denominator, rounded to the nearest integer, a half up
HalfUp(sec, denom) == (2 * sec * 100 + denom) \div (2 * denom)

\* C13: in the block of a non-zero window every percentage is
\* seconds * 100 / denominator rounded half up, the denominator being the
\* full window when unknown > 0 and the known total otherwise, and the line
\* of unknown is there exactly when unknown > 0.
C13_PercentagesRoundHalfUp ==
    LET t == last.totals
        known == t.ok + t.warn + t.bad
        full == known + t.unknown
        denom == IF t.unknown > 0 THEN full ELSE known
        shown == {last.out.rows[i].label : i \in 1..Len(last.out.rows)}
    IN  (last.op = "render_report_block" /\ full > 0) =>
            /\ ~last.out.nodata
            /\ \A i \in 1..Len(last.out.rows) :
                   last.out.rows[i].pct = HalfUp(t[last.out.rows[i].label], denom)
            /\ shown = IF t.unknown > 0 THEN {"ok", "warn", "bad", "unknown"}
                       ELSE {"ok", "warn", "bad"}

\* the value of a numeral, and what makes a sequence the numeral of n
RECURSIVE NumeralValue(_)
NumeralValue(d) ==
    IF d = <<>> THEN 0
    ELSE 10 * NumeralValue(SubSeq(d, 1, Len(d) - 1))
             + (CHOOSE k \in 0..9 : DigitChars[k + 1] = d[Len(d)])

IsNumeralOf(d, n) ==
    /\ Len(d) >= 1
    /\ \A i \in 1..Len(d) : \E k \in 0..9 : d[i] = DigitChars[k + 1]
    /\ Len(d) > 1 => d[1] # "0"
    /\ NumeralValue(d) = n

\* C14: format_duration renders floor(s / 60) whole minutes: as "<m>m" under
\* 60 minutes, as "<h>h <m>m" with m < 60 from 60 minutes on.
C14_DurationInWholeMinutes ==
    last.op = "format_duration" =>
        LET M == last.seconds \div 60
            out == last.out
            n == Len(out)
        IN  /\ n >= 2
            /\ out[n] = "m"
            /\ IF M < 60
                   THEN IsNumeralOf(SubSeq(out, 1, n - 1), M)
               ELSE \E k \in 2..(n - 3) :
                       /\ out[k] = "h" /\ out[k + 1] = " "
                       /\ IsNumeralOf(SubSeq(out, 1, k - 1), M \div 60)
                       /\ IsNumeralOf(SubSeq(out, k + 2, n - 1), M % 60)
                       /\ (M % 60) < 60 /\ 60 * (M \div 60) + (M % 60) = M

\* 7199 seconds are "1h 59m"
C14_Witness ==
    /\ last.op = "format_duration"
    /\ last.seconds = 7199
    /\ last.out = <<"1", "h", " ", "5", "9", "m">>

\* C16: for a window with start < end the unknown total is 0 when some event
\* has a timestamp <= start, min(first event timestamp, end) - start when
\* the earliest event is after start, and end - start without events.
C16_UnknownPrecedesFirstEvent ==
    (last.op = "compute_uptime" /\ last.start < last.end) =>
        LET lines == logs[QueryElevator]
            ts == {lines[i].ts : i \in 1..Len(lines)}
            first == CHOOSE t \in ts : \A x \in ts : t <= x
        IN  last.out.unknown =
                IF ts = {} THEN last.end - last.start
                ELSE IF \E t \in ts : t <= last.start THEN 0
                ELSE IF first < last.end THEN first - last.start
                ELSE last.end - last.start

\* the first event, written last, is a second into the window
C16_Witness ==
    /\ last.op = "compute_uptime"
    /\ last.start = 0 /\ last.end = MaxTs + 1
    /\ LET lines == logs[QueryElevator]
       IN  /\ Len(lines) = 2
           /\ lines[1].ts = 2 /\ lines[1].status = "ok"
           /\ lines[2].ts = 1 /\ lines[2].status = "bad"
    /\ last.out = [ok |-> 1, warn |-> 0, bad |-> 1, unknown |-> 1]

\* the elevators that have events, and the first event of one of them
HaveEvents == {e \in {"8240", "8241", "8242", "8243"} : ValidLines(logs[e]) # <<>>}

FirstEvent(e) ==
    LET v == ValidLines(logs[e])
    IN  CHOOSE t \in {v[i].ts : i \in 1..Len(v)} : \A i \in 1..Len(v) : t <= v[i].ts

AllTimeReport ==
    /\ last.op = "report_pick"
    /\ last.out \in {"Reported", "NoMessage"}
    /\ last.data.period = "all"

NoData(e) ==
    /\ last.data.totals[e] = [ok |-> 0, warn |-> 0, bad |-> 0, unknown |-> 0]
    /\ last.data.blocks[e].nodata

\* C17, as stated: the all-time window starts at the minimum first-event
\* timestamp over all elevators and ends now; an elevator with events gets
\* unknown = its own first-event timestamp minus the shared start (0 for the
\* owner of the earliest event), one without events the whole window; with
\* no event at all start = end, every total is zero and every block renders
\* as no data.
C17_SharedStart ==
    AllTimeReport =>
        LET d == last.data
        IN  /\ d.end = now
            /\ IF HaveEvents = {} THEN d.start = d.end /\ \A e \in DOMAIN d.totals : NoData(e)
               ELSE /\ \E o \in HaveEvents :
                           /\ d.start = FirstEvent(o)
                           /\ \A e \in HaveEvents : FirstEvent(o) <= FirstEvent(e)
                           /\ d.totals[o].unknown = 0
                    /\ \A e \in DOMAIN d.totals :
                           d.totals[e].unknown =
                               IF e \in HaveEvents THEN FirstEvent(e) - d.start
                               ELSE d.end - d.start

\* C17, amended: the same, with each unknown total cut at the end of the
\* window: an elevator with events gets the smaller of its own first-event
\* timestamp and now, minus the shared start, provided the shared start is
\* before now; when no elevator has an event, or the earliest first event is
\* not before now, the window is empty, every total is zero and every block
\* renders as no data.
C17_SharedStartCutAtNow ==
    AllTimeReport =>
        LET d == last.data
        IN  /\ d.end = now
            /\ IF HaveEvents = {} THEN d.start = d.end
               ELSE \E o \in HaveEvents :
                       /\ d.start = FirstEvent(o)
                       /\ \A e \in HaveEvents : FirstEvent(o) <= FirstEvent(e)
                       /\ d.totals[o].unknown = 0
            /\ IF d.start >= d.end THEN \A e \in DOMAIN d.totals : NoData(e)
               ELSE \A e \in DOMAIN d.totals :
                       d.totals[e].unknown =
                           IF e \in HaveEvents /\ FirstEvent(e) < d.end
                               THEN FirstEvent(e) - d.start
                           ELSE d.end - d.start

\* one elevator owns the earliest event, the first event of the other one is
\* two seconds later, two have no events
C17_Witness ==
    /\ AllTimeReport
    /\ now = MaxTs + 1
    /\ HaveEvents = {"8240", "8241"}
    /\ FirstEvent("8241") = 0 /\ FirstEvent("8240") = 2
    /\ last.data.start = 0
    /\ last.data.totals["8241"].unknown = 0
    /\ last.data.totals["8240"].unknown = 2
    /\ last.data.totals["8242"].unknown = 3
    /\ ~last.data.blocks["8242"].nodata

\* C20: in every log the bot can come to, the status shown in the menu and
\* the status the guard sees agree: get_last_status is the last element of
\* get_last_statuses(elevator, 1), and none exactly when that is empty; so
\* the keyboard shows the icon of that status, and the dash when there is none.
C20_MenuAgreesWithGuard ==
    /\ \A e \in {"8240", "8241", "8242", "8243"} :
           LET one == GetLastStatuses(logs[e], 1)
           IN  GetLastStatus(logs[e]) = IF one = <<>> THEN None ELSE one[Len(one)]
    /\ (last.op \in {"start", "refresh"} /\ last.data # <<>>) =>
           \A e \in DOMAIN last.data :
               LET one == GetLastStatuses(logs[e], 1)
               IN  last.data[e] = IF one = <<>> THEN "-" ELSE one[Len(one)]

====
